---- MODULE Spec2Model ----
(***************************************************************************)
(* Mask computation of the worm-tracking scripts:                          *)
(*   scripts/mask_background.py  (background estimate, edge mask,          *)
(*                                dilation, artifact filter, compositing)  *)
(*   src/third_party/tierpsy_tracker/get_roi_mask.py  (getROIMask)         *)
(*                                                                         *)
(* Images are functions from pixels <<row, col>> to naturals; boolean      *)
(* masks are functions from pixels to BOOLEAN; python index k of a stack   *)
(* is element k+1 of the sequence that models it.                          *)
(***************************************************************************)
EXTENDS Integers, Sequences, FiniteSets, TLC

\* ------------------------------------------------------------------ bounds
\* invocations of a directory command over the same two directories, and
\* files under the input directory before the first of them
MaxRuns == 2
MaxFiles == 2
\* frames of a stack handed to mask_background.py
MaxFrames == 4
\* frame size of the stacks (wider than DILATION_FACTOR, so that a dilated
\* mask can leave part of a frame uncovered)
Height == 1
Width == 32
\* frame size of the masks handed directly to remove_artifacts / dilation
MorphH == 3
MorphW == 3
\* foreground pixels of those masks
MaxFg == 4
\* largest min_area tried besides the default
MaxMinArea == 2
\* dimensions of the arrays handed to the background estimator
MaxNdim == 4
\* largest pixel intensity and largest edge response of the inputs
MaxPix == 2
MaxEdge == 1
\* frames of the stacks handed to the background estimator alone (more than
\* two windows, so that a window can end inside the stack on both sides)
MaxStackLen == 64
\* frame size of the images handed to getROIMask, the longest side of a blob
\* in them, and the largest area bound tried
ROIH == 4
ROIW == 5
MaxBlobSide == 2
MaxAreaArg == 1
\* frame size and side of the bright square of the frames handed to getROIMask
\* pixel by pixel
SceneH == 8
SceneW == 8
SquareSide == 3
\* largest magnitude of the thresh_block_size values tried
MaxBlockArg == 30

\* --------------------------------------------------------- program constants
DILATION_FACTOR == 30
DefaultMinArea == 7000
SubsampleBy == 3
Window == 30
UByteMax == 255
MedianKernel == 5
ThresholdMax == 255

\* ------------------------------------------------------------------ pixels
Grid(h, w) == (0 .. h - 1) \X (0 .. w - 1)
Pixels == Grid(Height, Width)
MorphPixels == Grid(MorphH, MorphW)

\* row-major (raster) order of pixels
Before(p, q) == p[1] < q[1] \/ (p[1] = q[1] /\ p[2] < q[2])
FirstPixel(S) == CHOOSE p \in S : \A q \in S : q = p \/ Before(p, q)

Abs(x) == IF x < 0 THEN -x ELSE x
Max2(a, b) == IF a >= b THEN a ELSE b
Min2(a, b) == IF a <= b THEN a ELSE b
SetMax(S) == CHOOSE x \in S : \A y \in S : y <= x
SetMin(S) == CHOOSE x \in S : \A y \in S : x <= y

RECURSIVE SumOver(_, _)
SumOver(f, S) ==
    IF S = {} THEN 0
    ELSE LET x == CHOOSE y \in S : TRUE IN f[x] + SumOver(f, S \ {x})

\* set pixels of a boolean mask, nonzero pixels of a label image
Foreground(m) == {p \in DOMAIN m : m[p]}
Nonzero(lab) == {p \in DOMAIN lab : lab[p] # 0}

\* ------------------------------------------------- skimage.morphology.disk
\* faulty variant: a footprint without its centre
InRing(radius, dr, dc) == dr * dr + dc * dc <= radius * radius /\ <<dr, dc>> # <<0, 0>>

\* disk(radius): offsets <<dr, dc>> with dr^2 + dc^2 <= radius^2
InDisk(radius, dr, dc) == dr * dr + dc * dc <= radius * radius

\* skimage.morphology.dilation(mask, disk(radius)): a pixel is set when some
\* set pixel lies within the footprint centred on it; outside the image
\* there is nothing set
Dilation(m, radius) ==
    [p \in DOMAIN m |->
        \E q \in Foreground(m) : InDisk(radius, p[1] - q[1], p[2] - q[2])]

\* ------------------------------------------------- skimage.measure.label
\* 8-connectivity (the default connectivity of label for 2-D input)
Adjacent(p, q) == p # q /\ Abs(p[1] - q[1]) <= 1 /\ Abs(p[2] - q[2]) <= 1

\* the pixels of F connected to the pixels S, found from the pixels added last
Neighbours(front, rest) == {q \in rest : \E s \in front : Adjacent(s, q)}
RECURSIVE Grow(_, _, _)
Grow(S, front, F) ==
    IF front = {} THEN S
    ELSE Grow(S \cup front, Neighbours(front, F \ (S \cup front)), F)

\* connected components of a pixel set, in raster order of their first pixel
RECURSIVE Components(_)
Components(F) ==
    IF F = {} THEN <<>>
    ELSE LET C == Grow({}, {FirstPixel(F)}, F)
         IN <<C>> \o Components(F \ C)

\* label(frame): 0 on the background, k on the k-th component
LabelOf(cs, p) == CHOOSE j \in 1 .. Len(cs) : p \in cs[j]
LabelImage(m, cs) == [p \in DOMAIN m |-> IF ~m[p] THEN 0 ELSE LabelOf(cs, p)]
Label(m) == LabelImage(m, Components(Foreground(m)))

\* ------------------------------------------- skimage.measure.regionprops
\* the regions of a label image: one per label present, in label order
RegionLabels(lab) == {lab[p] : p \in Nonzero(lab)}
Coords(lab, k) == {p \in DOMAIN lab : lab[p] = k}
Area(R) == Cardinality(R)

\* second central moments of a region, each multiplied by Area(R)^2
RowF(R) == [p \in R |-> p[1]]
ColF(R) == [p \in R |-> p[2]]
RowRowF(R) == [p \in R |-> p[1] * p[1]]
ColColF(R) == [p \in R |-> p[2] * p[2]]
RowColF(R) == [p \in R |-> p[1] * p[2]]
MuRR(R) == Area(R) * SumOver(RowRowF(R), R) - SumOver(RowF(R), R) * SumOver(RowF(R), R)
MuCC(R) == Area(R) * SumOver(ColColF(R), R) - SumOver(ColF(R), R) * SumOver(ColF(R), R)
MuRC(R) == Area(R) * SumOver(RowColF(R), R) - SumOver(RowF(R), R) * SumOver(ColF(R), R)

\* The inertia tensor [[a, b], [b, c]] has eigenvalues
\*   l1, l2 = ((a + c) +- sqrt(D)) / 2,  D = (a - c)^2 + 4 b^2
\* and regionprops gives eccentricity = 0 when l1 = 0, else sqrt(1 - l2/l1),
\* so eccentricity^2 = 2 sqrt(D) / (a + c + sqrt(D)).
Trace(R) == MuRR(R) + MuCC(R)
Discr(R) == (MuRR(R) - MuCC(R)) * (MuRR(R) - MuCC(R)) + 4 * MuRC(R) * MuRC(R)

\* region.eccentricity < t for the threshold t = tn / td, 0 <= t <= 1:
\*   sqrt(D) (2 td^2 - tn^2) < tn^2 (a + c), both sides being >= 0
EccentricityBelow(R, t) ==
    LET tn == t[1]
        td == t[2]
        lhs == 2 * td * td - tn * tn
        rhs == tn * tn * Trace(R)
    IN IF Trace(R) = 0 /\ Discr(R) = 0
       THEN 0 < tn
       ELSE Discr(R) * lhs * lhs < rhs * rhs

\* ------------------------------------------------------- remove_artifacts
\* faulty variant: both criteria must fail
RegionFailsBoth(R, min_area, eccentricity_thresh) ==
    Area(R) < min_area /\ EccentricityBelow(R, eccentricity_thresh)

\* The loop over the regions: a region with area < min_area or
\* eccentricity < eccentricity_thresh has its pixels set to 0 in
\* labeled_frame.  (region.eccentricity is only evaluated when the area
\* test is false: python's `or`.)
RegionFails(R, min_area, eccentricity_thresh) ==
    Area(R) < min_area \/ EccentricityBelow(R, eccentricity_thresh)

\* the image with the pixels of the labels in L set to 0
ZeroLabels(lab, L) == [p \in DOMAIN lab |-> IF lab[p] \in L THEN 0 ELSE lab[p]]

FilterRegions(lab, min_area, eccentricity_thresh) ==
    ZeroLabels(lab, {l \in RegionLabels(lab) :
                        RegionFails(Coords(lab, l), min_area, eccentricity_thresh)})

\* np.bincount: the labels (0 included) occurring fewer than n times
RareLabels(lab, n) ==
    {l \in {lab[p] : p \in DOMAIN lab} : Area(Coords(lab, l)) < n}

\* faulty variant: every pixel of a label that is not small is set
RemoveSmallObjectsFill(lab, min_size) ==
    [p \in DOMAIN lab |-> IF lab[p] \in RareLabels(lab, min_size) THEN lab[p] ELSE 1]

\* skimage.morphology.remove_small_objects on an integer array: the array is
\* taken as already labelled, the pixels of every label occurring fewer than
\* min_size times are set to 0, and the result is a copy that keeps the labels
RemoveSmallObjects(lab, min_size) == ZeroLabels(lab, RareLabels(lab, min_size))

\* remove_artifacts(frame, min_area, eccentricity_thresh)
RemoveArtifacts(frame, min_area, eccentricity_thresh) ==
    RemoveSmallObjects(FilterRegions(Label(frame), min_area, eccentricity_thresh),
                       min_area)

\* the caller's array after the loop: label() returned a new array, and the
\* loop writes to that one only
FrameAfterLoop(frame, lab) == frame

\* eccentricity thresholds as fractions <<numerator, denominator>>
DefaultEccentricityThresh == <<3, 4>>
EccentricityThreshs == {<<0, 1>>, <<1, 2>>, DefaultEccentricityThresh}
MinAreas == (0 .. MaxMinArea) \cup {DefaultMinArea}

\* ------------------------------- make_background_mask_from_standard_deviation
\* line 19: the guard of the ValueError
NdimTooSmallLax(n) == n < 2
NdimTooSmall(n) == n < 3

\* python indices of the frames that enter the standard deviation (lines
\* 22-28): with ind=None every SubsampleBy-th frame of the stack, with ind=i
\* every frame of image_stack[max(0, i - window) : min(i + window, N)]
SliceStart(N, i) == IF i = <<>> THEN 0 ELSE Max2(0, i[1] - Window)
SliceStop(N, i) == IF i = <<>> THEN N ELSE Min2(i[1] + Window, N)
Step(i) == IF i = <<>> THEN SubsampleBy ELSE 1

\* faulty variant: no subsampling in whole-stack mode
SampledAll(N, i) == SliceStart(N, i) .. SliceStop(N, i) - 1

\* faulty variant: the window also takes frame ind + window
SampledCentred(N, i) ==
    {j \in SliceStart(N, i) .. Min2(SliceStop(N, i), N - 1) :
        (j - SliceStart(N, i)) % Step(i) = 0}

Sampled(N, i) ==
    {j \in SliceStart(N, i) .. SliceStop(N, i) - 1 :
        (j - SliceStart(N, i)) % Step(i) = 0}

\* .std(axis=0) over the frames J of the stack, kept exact: the entry of a
\* pixel is n * sum(x^2) - sum(x)^2 for its n = |J| samples x, that is
\* (n * std)^2; std is zero exactly where the entry is zero
StdSq(stack, J) ==
    LET n == Cardinality(J)
    IN [p \in DOMAIN stack[1] |->
          LET x == [j \in J |-> stack[j + 1][p]]
              xx == [j \in J |-> stack[j + 1][p] * stack[j + 1][p]]
          IN n * SumOver(xx, J) - SumOver(x, J) * SumOver(x, J)]

\* The std grid up to one common positive factor, as naturals: sq[p] = g * r^2
\* for one g and a natural r per pixel.  (The stacks drawn below differ from
\* a still scene in one frame, which makes such a g exist.)
IsSquareTimes(v, g) == \E r \in 0 .. v : r * r * g = v
CommonFactor(V) ==
    IF V = {0} THEN 1
    ELSE CHOOSE g \in 1 .. SetMax(V) : \A v \in V : IsSquareTimes(v, g)
Roots(sq) ==
    LET V == {sq[p] : p \in DOMAIN sq}
        g == CommonFactor(V)
        root == [v \in V |-> CHOOSE r \in 0 .. v : r * r * g = v]
    IN [p \in DOMAIN sq |-> root[sq[p]]]

\* -------------------------------------------- skimage.filters.threshold_otsu
\* threshold_otsu(x[S]) for a grid x of naturals and the pixel set S:
\*  - S empty: image.reshape(-1)[0] raises IndexError;
\*  - one value only: that value is returned, no histogram is made;
\*  - else the cut that maximises the between-class variance
\*    w0 w1 (m0 - m1)^2, the first such cut when several do.
\* The 256-bin histogram is modelled by the values themselves: every value
\* is its own bin, and the bin centre returned is given by the largest value
\* of the lower class, so that x > threshold iff x is above that value.
OtsuValues(x, S) == {x[p] : p \in S}
OtsuRaises(x, S) == S = {}
Weight0(x, S, t) == Cardinality({p \in S : x[p] <= t})
Weight1(x, S, t) == Cardinality({p \in S : x[p] > t})
Sum0(x, S, t) == SumOver(x, {p \in S : x[p] <= t})
Sum1(x, S, t) == SumOver(x, {p \in S : x[p] > t})
\* between-class variance of the cut t as a fraction <<num, den>>
Variance12(x, S, t) ==
    LET a == Sum0(x, S, t) * Weight1(x, S, t) - Sum1(x, S, t) * Weight0(x, S, t)
    IN <<a * a, Weight0(x, S, t) * Weight1(x, S, t)>>
FracLess(f, g) == f[1] * g[2] < g[1] * f[2]
ThresholdOtsu(x, S) ==
    LET V == OtsuValues(x, S)
        cuts == V \ {SetMax(V)}
    IN IF Cardinality(V) = 1 THEN SetMax(V)
       ELSE CHOOSE t \in cuts :
              \A u \in cuts :
                  /\ ~FracLess(Variance12(x, S, t), Variance12(x, S, u))
                  /\ u < t => FracLess(Variance12(x, S, u), Variance12(x, S, t))

\* x > thresh
Above(x, t) == [p \in DOMAIN x |-> x[p] > t]

\* ---------------------------------------------------- apply_background_mask
ImageMax(img) == SetMax({img[p] : p \in DOMAIN img})
ImageMin(img) == SetMin({img[p] : p \in DOMAIN img})

\* lines 94-97: inverted_mask = logical_not(dilated_mask);
\* subtracted_image = frame.copy(); subtracted_image[inverted_mask] = max(frame)
PaintBackground(frame, m) ==
    [p \in DOMAIN frame |-> IF ~m[p] THEN ImageMax(frame) ELSE frame[p]]

\* np.rint of x / d for naturals x, d > 0: round half to even
Rint(x, d) ==
    LET q == x \div d
        r == x % d
    IN IF 2 * r < d THEN q
       ELSE IF 2 * r > d THEN q + 1
       ELSE IF q % 2 = 0 THEN q ELSE q + 1

\* faulty variant: no rescaling, the values are only cast
RescaleToUByteCast(img) == [p \in DOMAIN img |-> Min2(img[p], UByteMax)]

\* lines 99-100: rescale_intensity(in_range='image', out_range=(0, 1)) maps
\* [min, max] of the image linearly onto [0, 1], and a constant image is
\* clipped to [0, 1] instead; img_as_ubyte multiplies by 255 and rounds
RescaleToUByte(img) ==
    LET lo == ImageMin(img)
        hi == ImageMax(img)
    IN IF lo # hi
       THEN [p \in DOMAIN img |-> Rint((img[p] - lo) * UByteMax, hi - lo)]
       ELSE [p \in DOMAIN img |-> Min2(img[p], 1) * UByteMax]

\* ------------------------------------------------------------------ inputs
PixA == <<0, 0>>
PixB == <<Height - 1, Width - 1>>
\* frames that are zero but for the two end pixels
Frames ==
    {[p \in Pixels |-> IF p = PixA THEN a ELSE IF p = PixB THEN b ELSE 0] :
        a \in 0 .. MaxPix, b \in 0 .. MaxPix}
\* edge responses sato(difference_of_gaussians(frame)) of such frames: the
\* two filters are library code on floating point numbers and are not
\* computed here; any response at the two end pixels is allowed
EdgeResponses ==
    {[p \in Pixels |-> IF p = PixA THEN a ELSE IF p = PixB THEN b ELSE 0] :
        a \in 0 .. MaxEdge, b \in 0 .. MaxEdge}

\* ------------------------------------------------------------------ state
VARIABLES
    pc,                         \* position in the function being run
    entry,                      \* the function that was called
    error,                      \* the exception raised, "" when none
    ndim,                       \* image_stack.ndim
    image_stack,                \* the input stack
    stack_in,                   \* the input stack as it was handed in
    edge_of,                    \* sato(difference_of_gaussians(frame)) per frame
    ind,                        \* <<>> for ind=None, <<i>> for ind=i
    std,                        \* per-pixel variance numerators (see StdSq)
    estimated_background_mask,
    n_estimates,                \* calls of the background estimator so far
    sampled,                    \* python indices of the frames the std is taken over
    k,                          \* python index of the frame being processed
    edges, mask, dilated_mask, cleaned_mask,
    subtracted_image,           \* the frame after line 97
    masked_stack,               \* the output frames appended so far
    result,                     \* the value returned
    frame_in,                   \* remove_artifacts: the mask as handed in
    min_area, eccentricity_thresh,
    labeled_frame,
    \* getROIMask
    image_shape,                \* image.shape: <<rows, columns>>
    blobs,                      \* the blobs the thresholded image shows
    max_area, thresh_block_size, thresh_C, dilation_size, keep_border_data,
    is_light_background,
    wells_mask,                 \* <<>> for wells_mask=None
    contours, goodIndex,
    image,                      \* the frame's pixels, <<>> when only its blobs
                                \* are modelled
    blurred, thresholded,       \* the frame after lines 41 and 48-60
    \* background_mask_dir / dog_filter_dir
    input_dirpath, output_dirpath,  \* the two arguments, as directory paths
    dirs,                       \* the directories that exist
    files,                      \* the files that exist: path |-> content
    files_in,                   \* the files as they were before the first run
    paths,                      \* Path.walk: the directories still to visit
    dirpath, filenames,         \* the directory visited and its files still
                                \* to come in the inner loop
    runs,                       \* invocations of the command so far
    clean_runs,                 \* invocations that ended without an exception
    processed                   \* input paths handed to process_image in the
                                \* current invocation

vars == <<pc, entry, error, ndim, image_stack, stack_in, edge_of, ind, std,
          estimated_background_mask, n_estimates, sampled, k, edges, mask, dilated_mask,
          cleaned_mask, subtracted_image, masked_stack, result, frame_in,
          min_area, eccentricity_thresh, labeled_frame, image_shape, blobs,
          max_area, thresh_block_size, thresh_C, dilation_size,
          keep_border_data, is_light_background, wells_mask, contours,
          goodIndex, image, blurred, thresholded,
          input_dirpath, output_dirpath, dirs, files, files_in, paths,
          dirpath, filenames, runs, clean_runs, processed>>

batchVars == <<input_dirpath, output_dirpath, dirs, files, files_in, paths,
               dirpath, filenames, runs, clean_runs, processed>>
\* values of the batch command variables while another function runs
NoBatch ==
    /\ input_dirpath = <<>> /\ output_dirpath = <<>>
    /\ dirs = {} /\ files = <<>> /\ files_in = <<>>
    /\ paths = <<>> /\ dirpath = <<>> /\ filenames = {}
    /\ runs = 0 /\ clean_runs = 0 /\ processed = {}

roiVars == <<image_shape, blobs, max_area, thresh_block_size, thresh_C,
             dilation_size, keep_border_data, is_light_background, wells_mask,
             contours, goodIndex, image, blurred, thresholded>>
\* values of the getROIMask variables while another function runs
NoROI ==
    /\ image_shape = <<>> /\ blobs = <<>> /\ max_area = 0
    /\ thresh_block_size = 0 /\ thresh_C = 0 /\ dilation_size = 0
    /\ keep_border_data = FALSE /\ is_light_background = FALSE
    /\ wells_mask = <<>> /\ contours = <<>> /\ goodIndex = <<>>
    /\ image = <<>> /\ blurred = <<>> /\ thresholded = <<>>

stackVars == <<entry, ndim, image_stack, stack_in, edge_of, ind, std,
               estimated_background_mask, n_estimates, sampled, k, edges, mask,
               subtracted_image, masked_stack, result>>

\* -------------------------------------- remove_artifacts, called on its own
\* masks of the small grid with at most MaxFg set pixels
MorphMasks ==
    {[p \in MorphPixels |-> p \in S] :
        S \in {T \in SUBSET MorphPixels : Cardinality(T) <= MaxFg}}

InitArtifacts ==
    /\ pc = "ra_label"
    /\ entry = "remove_artifacts"
    /\ error = ""
    /\ dilated_mask \in MorphMasks
    /\ frame_in = dilated_mask
    /\ min_area \in MinAreas
    /\ eccentricity_thresh \in EccentricityThreshs
    /\ labeled_frame = <<>>
    /\ cleaned_mask = <<>>
    /\ ndim = 2 /\ image_stack = <<>> /\ stack_in = <<>> /\ edge_of = <<>>
    /\ ind = <<>> /\ std = <<>> /\ estimated_background_mask = <<>>
    /\ n_estimates = 0 /\ sampled = {} /\ k = 0 /\ edges = <<>> /\ mask = <<>>
    /\ subtracted_image = <<>> /\ masked_stack = <<>> /\ result = <<>>
    /\ NoROI
    /\ NoBatch

\* line 51
RALabel ==
    /\ pc = "ra_label"
    /\ labeled_frame' = Label(dilated_mask)
    /\ pc' = "ra_loop"
    /\ UNCHANGED <<batchVars, error, dilated_mask, cleaned_mask, frame_in, min_area,
                   eccentricity_thresh, stackVars, roiVars>>

\* lines 53-58
RALoop ==
    /\ pc = "ra_loop"
    /\ labeled_frame' = FilterRegions(labeled_frame, min_area, eccentricity_thresh)
    /\ dilated_mask' = FrameAfterLoop(dilated_mask, labeled_frame')
    /\ pc' = "ra_small"
    /\ UNCHANGED <<batchVars, error, cleaned_mask, frame_in, min_area,
                   eccentricity_thresh, stackVars, roiVars>>

\* lines 61-62
RARemoveSmall ==
    /\ pc = "ra_small"
    /\ cleaned_mask' = RemoveSmallObjects(labeled_frame, min_area)
    /\ pc' = "ra_done"
    /\ UNCHANGED <<batchVars, error, dilated_mask, labeled_frame, frame_in, min_area,
                   eccentricity_thresh, stackVars, roiVars>>

NextArtifacts == RALabel \/ RALoop \/ RARemoveSmall

SpecArtifacts == InitArtifacts /\ [][NextArtifacts]_vars

\* ------------------------------------------- mask_background.py on a stack
NFrames == Len(image_stack)
artifactVars == <<frame_in, min_area, eccentricity_thresh, labeled_frame>>
ValueErrorNdim == "ValueError: Input image must have at least 3 dimensions."
IndexErrorEmpty == "IndexError: index 0 is out of bounds for axis 0 with size 0"
\* the frame index an exception brings to the caller of apply_background_mask,
\* <<>> for none: the loop body (lines 72-101) has no handler, so an exception
\* raised in it reaches the caller as raised, and neither the ValueError of
\* line 20 nor the IndexError from threshold_otsu names a frame
FrameIndexOf(e) == <<>>

\* A stack shows a scene that is still but for one frame; the edge response
\* is a function of the frame.  apply_background_mask gets a 3-D stack or,
\* by mistake, a 2-D image; the estimator is also called on its own, with
\* ind=None or ind=i, on arrays of 1 to MaxNdim dimensions.
Init ==
    /\ pc = "est_check"
    /\ error = ""
    /\ entry \in {"apply_background_mask",
                  "make_background_mask_from_standard_deviation"}
    /\ \E N \in 1 .. MaxFrames, base \in Frames, alt \in Frames,
          eb \in EdgeResponses, ea \in EdgeResponses :
          /\ \E j \in 1 .. N :
                image_stack = [i \in 1 .. N |-> IF i = j THEN alt ELSE base]
          /\ edge_of = [i \in 1 .. N |-> IF image_stack[i] = alt THEN ea ELSE eb]
          /\ IF entry = "apply_background_mask"
             THEN /\ ndim \in {2, 3}
                  /\ ind = <<>>
             ELSE /\ ndim \in 1 .. MaxNdim
                  /\ ind \in {<<>>} \cup {<<i>> : i \in 0 .. N - 1}
                  /\ ea = [p \in Pixels |-> 0] /\ eb = ea
          /\ ndim # 3 => alt = base /\ ea = eb
    /\ stack_in = image_stack
    /\ std = <<>> /\ estimated_background_mask = <<>> /\ n_estimates = 0 /\ sampled = {}
    /\ k = 0 /\ edges = <<>> /\ mask = <<>> /\ dilated_mask = <<>>
    /\ cleaned_mask = <<>> /\ subtracted_image = <<>> /\ masked_stack = <<>>
    /\ result = <<>>
    /\ frame_in = <<>> /\ labeled_frame = <<>>
    /\ min_area = DefaultMinArea
    /\ eccentricity_thresh = DefaultEccentricityThresh
    /\ NoROI
    /\ NoBatch

\* lines 19-20 (reached from line 70 or by a direct call)
EstimateCheck ==
    /\ pc = "est_check"
    /\ IF NdimTooSmall(ndim)
       THEN pc' = "raised" /\ error' = ValueErrorNdim
       ELSE pc' = "est_std" /\ error' = error
    /\ UNCHANGED <<batchVars, entry, ndim, image_stack, stack_in, edge_of, ind, std,
                   estimated_background_mask, n_estimates, sampled, k, edges, mask,
                   dilated_mask, cleaned_mask, subtracted_image, masked_stack,
                   result, artifactVars, roiVars>>

\* lines 22-28
EstimateStd ==
    /\ pc = "est_std"
    /\ sampled' = Sampled(NFrames, ind)
    /\ std' = StdSq(image_stack, sampled')
    /\ pc' = "est_otsu"
    /\ UNCHANGED <<batchVars, entry, error, ndim, image_stack, stack_in, edge_of, ind,
                   estimated_background_mask, n_estimates, k, edges, mask,
                   dilated_mask, cleaned_mask, subtracted_image, masked_stack,
                   result, artifactVars, roiVars>>

\* lines 29-31, and the return to line 70 or to the caller
EstimateThreshold ==
    /\ pc = "est_otsu"
    /\ estimated_background_mask' =
           Above(Roots(std), ThresholdOtsu(Roots(std), DOMAIN std))
    /\ n_estimates' = n_estimates + 1
    /\ IF entry = "apply_background_mask"
       THEN pc' = "loop" /\ result' = result
       ELSE pc' = "returned" /\ result' = <<std, estimated_background_mask'>>
    /\ UNCHANGED <<batchVars, entry, error, ndim, image_stack, stack_in, edge_of, ind, std,
                   sampled, k, edges, mask, dilated_mask, cleaned_mask,
                   subtracted_image, masked_stack, artifactVars, roiVars>>

\* lines 72-80: the next frame, its edge response, the Otsu threshold of the
\* response inside the background mask, the raw mask
EdgeMask ==
    /\ pc = "loop"
    /\ k < NFrames
    /\ edges' = edge_of[k + 1]
    /\ IF OtsuRaises(edges', Foreground(estimated_background_mask))
       THEN pc' = "raised" /\ error' = IndexErrorEmpty /\ mask' = mask
       ELSE /\ pc' = "dilate"
            /\ error' = error
            /\ mask' = Above(edges', ThresholdOtsu(edges',
                                  Foreground(estimated_background_mask)))
    /\ UNCHANGED <<batchVars, entry, ndim, image_stack, stack_in, edge_of, ind, std,
                   estimated_background_mask, n_estimates, sampled, k, dilated_mask,
                   cleaned_mask, subtracted_image, masked_stack, result,
                   artifactVars, roiVars>>

\* faulty variant: the dilated mask of a frame is added to the one of the
\* frame before
DilateAccumulating ==
    /\ pc = "dilate"
    /\ dilated_mask' =
           [p \in Pixels |->
               \/ Dilation(mask, DILATION_FACTOR)[p]
               \/ (dilated_mask # <<>> /\ dilated_mask[p])]
    /\ pc' = "artifacts"
    /\ UNCHANGED <<batchVars, entry, error, ndim, image_stack, stack_in, edge_of, ind, std,
                   estimated_background_mask, n_estimates, sampled, k, edges, mask,
                   cleaned_mask, subtracted_image, masked_stack, result,
                   artifactVars, roiVars>>

\* lines 84-85
Dilate ==
    /\ pc = "dilate"
    /\ dilated_mask' = Dilation(mask, DILATION_FACTOR)
    /\ pc' = "artifacts"
    /\ UNCHANGED <<batchVars, entry, error, ndim, image_stack, stack_in, edge_of, ind, std,
                   estimated_background_mask, n_estimates, sampled, k, edges, mask,
                   cleaned_mask, subtracted_image, masked_stack, result,
                   artifactVars, roiVars>>

\* line 88
Artifacts ==
    /\ pc = "artifacts"
    /\ cleaned_mask' = RemoveArtifacts(dilated_mask, min_area, eccentricity_thresh)
    /\ pc' = "composite"
    /\ UNCHANGED <<batchVars, entry, error, ndim, image_stack, stack_in, edge_of, ind, std,
                   estimated_background_mask, n_estimates, sampled, k, edges, mask,
                   dilated_mask, subtracted_image, masked_stack, result,
                   artifactVars, roiVars>>

\* lines 94-101
Composite ==
    /\ pc = "composite"
    /\ subtracted_image' = PaintBackground(image_stack[k + 1], dilated_mask)
    /\ masked_stack' = Append(masked_stack, RescaleToUByte(subtracted_image'))
    /\ k' = k + 1
    /\ pc' = "loop"
    /\ UNCHANGED <<batchVars, entry, error, ndim, image_stack, stack_in, edge_of, ind, std,
                   estimated_background_mask, n_estimates, sampled, edges, mask,
                   dilated_mask, cleaned_mask, result, artifactVars, roiVars>>

\* line 102
ReturnStack ==
    /\ pc = "loop"
    /\ k = NFrames
    /\ result' = masked_stack
    /\ pc' = "returned"
    /\ UNCHANGED <<batchVars, entry, error, ndim, image_stack, stack_in, edge_of, ind, std,
                   estimated_background_mask, n_estimates, sampled, k, edges, mask,
                   dilated_mask, cleaned_mask, subtracted_image, masked_stack,
                   artifactVars, roiVars>>

Next ==
    \/ EstimateCheck \/ EstimateStd \/ EstimateThreshold
    \/ EdgeMask \/ Dilate \/ Artifacts \/ Composite \/ ReturnStack

Spec == Init /\ [][Next]_vars

\* ------------------- the background estimator on long stacks, called alone
\* a still scene of N frames, whole-stack mode or a window around frame ind
InitWindow ==
    /\ pc = "est_check"
    /\ error = ""
    /\ entry = "make_background_mask_from_standard_deviation"
    /\ ndim = 3
    /\ \E N \in 1 .. MaxStackLen :
          /\ image_stack = [i \in 1 .. N |-> [p \in Pixels |-> 0]]
          /\ ind \in {<<>>} \cup {<<i>> : i \in 0 .. N - 1}
    /\ edge_of = image_stack
    /\ stack_in = image_stack
    /\ std = <<>> /\ estimated_background_mask = <<>> /\ n_estimates = 0
    /\ sampled = {}
    /\ k = 0 /\ edges = <<>> /\ mask = <<>> /\ dilated_mask = <<>>
    /\ cleaned_mask = <<>> /\ subtracted_image = <<>> /\ masked_stack = <<>>
    /\ result = <<>>
    /\ frame_in = <<>> /\ labeled_frame = <<>>
    /\ min_area = DefaultMinArea
    /\ eccentricity_thresh = DefaultEccentricityThresh
    /\ NoROI
    /\ NoBatch

NextWindow == EstimateCheck \/ EstimateStd \/ EstimateThreshold

SpecWindow == InitWindow /\ [][NextWindow]_vars

\* ------------------------------------------------------------- getROIMask
\* A blob is a filled rectangle <<r0, c0, r1, c1>> of the thresholded
\* image.  cv2.findContours(..., CHAIN_APPROX_SIMPLE) gives its corners as
\* points <<x, y>>, cv2.contourArea the area the corners enclose, and
\* cv2.drawContours(..., FILLED) paints every pixel of the rectangle.
Blobs(shape) ==
    {b \in (0..(shape[1] - 1)) \X (0..(shape[2] - 1))
             \X (0..(shape[1] - 1)) \X (0..(shape[2] - 1)) :
        /\ b[1] <= b[3] /\ b[3] - b[1] < MaxBlobSide
        /\ b[2] <= b[4] /\ b[4] - b[2] < MaxBlobSide}
\* two blobs are distinct connected objects
Separated(a, b) ==
    \/ a[1] > b[3] + 1 \/ b[1] > a[3] + 1
    \/ a[2] > b[4] + 1 \/ b[2] > a[4] + 1
BlobBefore(a, b) == Before(<<a[1], a[2]>>, <<b[1], b[2]>>)
Scenes(shape) ==
    {<<>>} \cup {<<a>> : a \in Blobs(shape)}
           \cup {s \in {<<a, b>> : a \in Blobs(shape), b \in Blobs(shape)} :
                    Separated(s[1], s[2]) /\ BlobBefore(s[1], s[2])}
ContourPoints(b) ==
    {<<b[2], b[1]>>, <<b[2], b[3]>>, <<b[4], b[3]>>, <<b[4], b[1]>>}
ContourArea(b) == (b[4] - b[2]) * (b[3] - b[1])
ContourFill(b) == {p \in (b[1]..b[3]) \X (b[2]..b[4]) : TRUE}
FindContours(scene) ==
    [i \in 1..Len(scene) |-> [points |-> ContourPoints(scene[i]),
                              area   |-> ContourArea(scene[i]),
                              fill   |-> ContourFill(scene[i])]]

IM_LIMX(shape) == shape[1] - 2
IM_LIMY(shape) == shape[2] - 2
\* faulty variant: only the parity is corrected
NormalizeBlockSizeOdd(n) == IF n % 2 = 0 THEN n + 1 ELSE n
\* lines 34-36
NormalizeBlockSize(n) ==
    LET m == Max2(3, n) IN IF m % 2 = 0 THEN m + 1 ELSE m

\* lines 77-79
ClearOfBorder(contour, shape) ==
    /\ ~ \E q \in contour.points : q[1] = 1 \/ q[2] = 1
    /\ ~ \E q \in contour.points : q[1] = IM_LIMY(shape)
    /\ ~ \E q \in contour.points : q[2] = IM_LIMX(shape)
\* faulty variant: rejected only when every point lies on a closed pixel
ClearOfWellsSome(contour, wells) ==
    \E q \in contour.points : wells[<<q[2], q[1]>>]
\* line 83
ClearOfWells(contour, wells) ==
    ~ \E q \in contour.points : ~ wells[<<q[2], q[1]>>]
\* line 83: numpy raises IndexError when a row or column index of the fancy
\* index lies outside wells_mask; the loop visits every contour, so the call
\* fails when any contour has such a point
IndexErrorWells == "IndexError: index is out of bounds"
WellsIndexError(cs, keep_border, wells) ==
    /\ ~ keep_border
    /\ wells # <<>>
    /\ \E i \in 1..Len(cs) :
          \E q \in cs[i].points : <<q[2], q[1]>> \notin DOMAIN wells
\* lines 70-85
Keep(contour, shape, keep_border, wells) ==
    IF ~ keep_border
    THEN IF wells = <<>> THEN ClearOfBorder(contour, shape)
                         ELSE ClearOfWells(contour, wells)
    ELSE TRUE
\* faulty variant: exclusive bounds
AreaInRangeStrict(area, lo, hi) == area > lo /\ area < hi
\* line 89
AreaInRange(area, lo, hi) == area >= lo /\ area <= hi
\* lines 68-90: python indices ii of the contours kept, in order
RECURSIVE GoodIndex(_, _, _, _, _, _, _)
GoodIndex(cs, ii, shape, keep_border, wells, lo, hi) ==
    IF ii >= Len(cs) THEN <<>>
    ELSE LET rest == GoodIndex(cs, ii + 1, shape, keep_border, wells, lo, hi)
         IN IF /\ Keep(cs[ii + 1], shape, keep_border, wells)
               /\ AreaInRange(cs[ii + 1].area, lo, hi)
            THEN <<ii>> \o rest
            ELSE rest
\* faulty variant: the contours are filled with 255
DrawContours255(shape, cs, good) ==
    [p \in Grid(shape[1], shape[2]) |->
        IF \E n \in 1..Len(good) : p \in cs[good[n] + 1].fill THEN 255 ELSE 0]
\* lines 94-96
DrawContours(shape, cs, good) ==
    [p \in Grid(shape[1], shape[2]) |->
        IF \E n \in 1..Len(good) : p \in cs[good[n] + 1].fill THEN 1 ELSE 0]
\* lines 100-103
ZeroBorder(m, shape) ==
    [p \in DOMAIN m |->
        IF \/ p[1] = 0 \/ p[2] = 0
           \/ p[1] = shape[1] - 1 \/ p[2] = shape[2] - 1
        THEN 0 ELSE m[p]]
\* cv2.getStructuringElement(MORPH_ELLIPSE, (n, n)) for odd n: row dr of the
\* element spans the columns within round(r * sqrt(1 - dr^2 / r^2)) of the
\* centre, r = n \div 2
EllipseHalfWidth(r, dr) ==
    SetMax({d \in 0..r : d = 0 \/ (2 * d - 1) * (2 * d - 1)
                                      <= 4 * (r * r - dr * dr)})
InEllipse(n, dr, dc) ==
    LET r == n \div 2
    IN /\ Abs(dr) <= r
       /\ Abs(dc) <= EllipseHalfWidth(r, Abs(dr))
\* one pass of cv2.dilate: every pixel takes the largest value under the
\* structuring element centred on it (the centre belongs to the element)
\* the values of dilation_size tried
DilationSizes == {1, 3}
\* the offsets of the structuring element of each size
Ellipse ==
    [n \in DilationSizes |->
        {<<d[1], d[2]>> :
            d \in {e \in (-(n \div 2)..(n \div 2)) \X (-(n \div 2)..(n \div 2)) :
                     InEllipse(n, e[1], e[2])}}]
DilateWith(m, element) ==
    [p \in DOMAIN m |->
        SetMax({m[<<p[1] + d[1], p[2] + d[2]>>] :
                   d \in {e \in element :
                            <<p[1] + e[1], p[2] + e[2]>> \in DOMAIN m}})]
DilateOnce(m, n) == DilateWith(m, Ellipse[n])
RECURSIVE DilateTimes(_, _, _)
DilateTimes(m, n, iterations) ==
    IF iterations = 0 THEN m
    ELSE DilateTimes(DilateOnce(m, n), n, iterations - 1)

ROIShape == <<ROIH, ROIW>>
AreaArgs == -1..MaxAreaArg
\* wells masks of the frame's shape: every pixel open, or the columns left of
\* one closed
WellsMasks ==
    {<<>>} \cup {[p \in Grid(ROIH, ROIW) |-> p[2] >= c] : c \in 0..1}
\* a wells mask made for the transposed frame, every pixel open
WellsMaskTransposed == [p \in Grid(ROIW, ROIH) |-> TRUE]

InitROI ==
    /\ pc = "roi_entry"
    /\ entry = "getROIMask"
    /\ error = ""
    /\ image_shape = ROIShape
    /\ blobs \in Scenes(ROIShape)
    /\ min_area \in AreaArgs
    /\ max_area \in AreaArgs
    /\ is_light_background \in BOOLEAN
    /\ thresh_block_size = (IF is_light_background THEN 4 ELSE 0)
    /\ thresh_C = 15
    /\ dilation_size \in DilationSizes
    /\ keep_border_data \in BOOLEAN
    /\ wells_mask \in (IF keep_border_data THEN {<<>>} ELSE WellsMasks)
                        \cup {WellsMaskTransposed}
    /\ contours = <<>> /\ goodIndex = <<>>
    /\ image = <<>> /\ blurred = <<>> /\ thresholded = <<>>
    /\ mask = <<>> /\ result = <<>>
    /\ ndim = 2 /\ image_stack = <<>> /\ stack_in = <<>> /\ edge_of = <<>>
    /\ ind = <<>> /\ std = <<>> /\ estimated_background_mask = <<>>
    /\ n_estimates = 0 /\ sampled = {} /\ k = 0 /\ edges = <<>>
    /\ dilated_mask = <<>> /\ cleaned_mask = <<>> /\ subtracted_image = <<>>
    /\ masked_stack = <<>>
    /\ frame_in = <<>> /\ labeled_frame = <<>>
    /\ eccentricity_thresh = DefaultEccentricityThresh
    /\ NoBatch

roiArgs == <<image_shape, blobs, min_area, max_area, thresh_C, dilation_size,
             keep_border_data, is_light_background, wells_mask>>
roiOther == <<entry, ndim, image_stack, stack_in, edge_of, ind, std,
              estimated_background_mask, n_estimates, sampled, k, edges, dilated_mask,
              cleaned_mask, subtracted_image, masked_stack, frame_in,
              eccentricity_thresh, labeled_frame>>
roiPixels == <<image, blurred, thresholded>>

\* lines 30-36: the first statements of the function; no argument is tested
ROIBlockSize ==
    /\ pc = "roi_entry"
    /\ thresh_block_size' = NormalizeBlockSize(thresh_block_size)
    /\ pc' = "roi_threshold"
    /\ UNCHANGED <<batchVars, roiArgs, roiOther, roiPixels, error, contours, goodIndex, mask, result>>

\* lines 41-65
ROIFindContours ==
    /\ pc = "roi_threshold"
    /\ contours' = FindContours(blobs)
    /\ pc' = "roi_select"
    /\ UNCHANGED <<batchVars, roiArgs, roiOther, roiPixels, error, thresh_block_size, goodIndex,
                   mask, result>>

\* lines 69-90
ROISelect ==
    /\ pc = "roi_select"
    /\ IF WellsIndexError(contours, keep_border_data, wells_mask)
       THEN /\ pc' = "raised"
            /\ error' = IndexErrorWells
            /\ UNCHANGED goodIndex
       ELSE /\ goodIndex' = GoodIndex(contours, 0, image_shape,
                                      keep_border_data, wells_mask, min_area,
                                      max_area)
            /\ pc' = "roi_draw"
            /\ UNCHANGED error
    /\ UNCHANGED <<batchVars, roiArgs, roiOther, roiPixels, thresh_block_size, contours, mask,
                   result>>

\* lines 94-96
ROIDraw ==
    /\ pc = "roi_draw"
    /\ mask' = DrawContours(image_shape, contours, goodIndex)
    /\ pc' = "roi_border"
    /\ UNCHANGED <<batchVars, roiArgs, roiOther, roiPixels, error, thresh_block_size, contours,
                   goodIndex, result>>

\* lines 100-103
ROIBorder ==
    /\ pc = "roi_border"
    /\ mask' = ZeroBorder(mask, image_shape)
    /\ pc' = "roi_dilate"
    /\ UNCHANGED <<batchVars, roiArgs, roiOther, roiPixels, error, thresh_block_size, contours,
                   goodIndex, result>>

\* lines 107-110
ROIDilate ==
    /\ pc = "roi_dilate"
    /\ mask' = DilateTimes(mask, dilation_size, 3)
    /\ result' = mask'
    /\ pc' = "returned"
    /\ UNCHANGED <<batchVars, roiArgs, roiOther, roiPixels, error, thresh_block_size, contours,
                   goodIndex>>

NextROI ==
    \/ ROIBlockSize \/ ROIFindContours \/ ROISelect
    \/ ROIDraw \/ ROIBorder \/ ROIDilate

SpecROI == InitROI /\ [][NextROI]_vars

\* ---------------------------------- getROIMask over the block sizes
\* a frame without blobs, with every thresh_block_size of the range
InitBlockSize ==
    /\ pc = "roi_entry"
    /\ entry = "getROIMask"
    /\ error = ""
    /\ image_shape = ROIShape
    /\ blobs = <<>>
    /\ min_area = 0
    /\ max_area = MaxAreaArg
    /\ is_light_background = TRUE
    /\ thresh_block_size \in (-MaxBlockArg)..MaxBlockArg
    /\ thresh_C = 15
    /\ dilation_size = 1
    /\ keep_border_data = FALSE
    /\ wells_mask = <<>>
    /\ contours = <<>> /\ goodIndex = <<>>
    /\ image = <<>> /\ blurred = <<>> /\ thresholded = <<>>
    /\ mask = <<>> /\ result = <<>>
    /\ ndim = 2 /\ image_stack = <<>> /\ stack_in = <<>> /\ edge_of = <<>>
    /\ ind = <<>> /\ std = <<>> /\ estimated_background_mask = <<>>
    /\ n_estimates = 0 /\ sampled = {} /\ k = 0 /\ edges = <<>>
    /\ dilated_mask = <<>> /\ cleaned_mask = <<>> /\ subtracted_image = <<>>
    /\ masked_stack = <<>>
    /\ frame_in = <<>> /\ labeled_frame = <<>>
    /\ eccentricity_thresh = DefaultEccentricityThresh
    /\ NoBatch

SpecBlockSize == InitBlockSize /\ [][NextROI]_vars

\* ------------------------------------------ getROIMask on the frame's pixels
\* cv2.medianBlur and the box filter of cv2.adaptiveThreshold read past the
\* frame with BORDER_REPLICATE: an index is clamped to the frame
Clamp(i, n) == Max2(0, Min2(n - 1, i))
\* the pixels under a square window of side 2 * half + 1 centred on p
WindowAt(p, half, shape) ==
    [d \in (-half..half) \X (-half..half) |->
        <<Clamp(p[1] + d[1], shape[1]), Clamp(p[2] + d[2], shape[2])>>]
\* the middle one of the values under the window, in sorted order
Median(img, w) ==
    LET n == Cardinality(DOMAIN w)
    IN CHOOSE v \in {img[w[d]] : d \in DOMAIN w} :
          /\ Cardinality({d \in DOMAIN w : img[w[d]] < v}) <= n \div 2
          /\ Cardinality({d \in DOMAIN w : img[w[d]] <= v}) > n \div 2
\* faulty variant: no blur
MedianBlurNone(img, ksize, shape) == img
\* line 41: cv2.medianBlur(image, ksize)
MedianBlur(img, ksize, shape) ==
    [p \in DOMAIN img |-> Median(img, WindowAt(p, ksize \div 2, shape))]
\* ADAPTIVE_THRESH_MEAN_C: the mean of the block around p, rounded to 8 bits
BlockMean(img, block, shape, p) ==
    LET w == WindowAt(p, block \div 2, shape)
    IN Rint(SumOver([d \in DOMAIN w |-> img[w[d]]], DOMAIN w), block * block)
\* cv2.adaptiveThreshold(img, ThresholdMax, ADAPTIVE_THRESH_MEAN_C, type,
\* block, delta): THRESH_BINARY sets the pixels with img - mean > -delta,
\* THRESH_BINARY_INV those with img - mean <= -delta
AdaptiveThreshold(img, inverted, block, delta, shape) ==
    [p \in DOMAIN img |->
        LET diff == img[p] - BlockMean(img, block, shape, p)
        IN IF (inverted /\ diff <= -delta) \/ (~inverted /\ diff > -delta)
           THEN ThresholdMax ELSE 0]
\* lines 48-60
Threshold(img, light, block, C, shape) ==
    IF ~light THEN AdaptiveThreshold(img, FALSE, block, -C, shape)
              ELSE AdaptiveThreshold(img, TRUE, block, C, shape)
\* line 65 on pixels: the connected objects of the nonzero pixels, each as
\* the rectangle it fills (ObjectsAreRectangles checks that it fills it)
BoundingBox(R) ==
    <<SetMin({p[1] : p \in R}), SetMin({p[2] : p \in R}),
      SetMax({p[1] : p \in R}), SetMax({p[2] : p \in R})>>
BlobsOf(img) ==
    LET cs == Components(Nonzero(img))
    IN [i \in 1..Len(cs) |-> BoundingBox(cs[i])]

SceneShape == <<SceneH, SceneW>>
\* a frame of one intensity with a filled square of another
SquareFrame(r0, c0, dark, bright) ==
    [p \in Grid(SceneH, SceneW) |->
        IF /\ p[1] \in r0..(r0 + SquareSide - 1)
           /\ p[2] \in c0..(c0 + SquareSide - 1)
        THEN bright ELSE dark]
\* the frames tried: the square lies clear of the frame's border
SquareFrames ==
    {SquareFrame(r0, c0, dark, bright) :
        r0 \in 1..(SceneH - SquareSide - 1),
        c0 \in 1..(SceneW - SquareSide - 1),
        dark \in {0, 100}, bright \in {200, 255}}

InitScene ==
    /\ pc = "roi_entry"
    /\ entry = "getROIMask"
    /\ error = ""
    /\ image_shape = SceneShape
    /\ image \in SquareFrames
    /\ blurred = <<>> /\ thresholded = <<>>
    /\ blobs = <<>>
    /\ min_area = 1
    /\ max_area = 100
    /\ thresh_block_size \in {0, 5}
    /\ thresh_C \in {-5, 0, 15}
    /\ dilation_size \in DilationSizes
    /\ keep_border_data = TRUE
    /\ is_light_background \in BOOLEAN
    /\ wells_mask = <<>>
    /\ contours = <<>> /\ goodIndex = <<>>
    /\ mask = <<>> /\ result = <<>>
    /\ ndim = 2 /\ image_stack = <<>> /\ stack_in = <<>> /\ edge_of = <<>>
    /\ ind = <<>> /\ std = <<>> /\ estimated_background_mask = <<>>
    /\ n_estimates = 0 /\ sampled = {} /\ k = 0 /\ edges = <<>>
    /\ dilated_mask = <<>> /\ cleaned_mask = <<>> /\ subtracted_image = <<>>
    /\ masked_stack = <<>>
    /\ frame_in = <<>> /\ labeled_frame = <<>>
    /\ eccentricity_thresh = DefaultEccentricityThresh
    /\ NoBatch

\* line 41
SceneBlur ==
    /\ pc = "roi_threshold"
    /\ blurred' = MedianBlur(image, MedianKernel, image_shape)
    /\ pc' = "roi_adaptive"
    /\ UNCHANGED <<batchVars, roiArgs, roiOther, error, image, thresholded,
                   thresh_block_size, contours, goodIndex, mask, result>>

\* lines 48-60
SceneThreshold ==
    /\ pc = "roi_adaptive"
    /\ thresholded' = Threshold(blurred, is_light_background,
                                thresh_block_size, thresh_C, image_shape)
    /\ pc' = "roi_contours"
    /\ UNCHANGED <<batchVars, roiArgs, roiOther, error, image, blurred,
                   thresh_block_size, contours, goodIndex, mask, result>>

\* line 65
SceneFindContours ==
    /\ pc = "roi_contours"
    /\ blobs' = BlobsOf(thresholded)
    /\ contours' = FindContours(blobs')
    /\ pc' = "roi_select"
    /\ UNCHANGED <<batchVars, image_shape, min_area, max_area, thresh_C, dilation_size,
                   keep_border_data, is_light_background, wells_mask,
                   roiOther, roiPixels, error, thresh_block_size, goodIndex,
                   mask, result>>

NextScene ==
    \/ ROIBlockSize \/ SceneBlur \/ SceneThreshold \/ SceneFindContours
    \/ ROISelect \/ ROIDraw \/ ROIBorder \/ ROIDilate

SpecScene == InitScene /\ [][NextScene]_vars

\* ------------------------------------ background_mask_dir and dog_filter_dir
\* A directory path is the sequence of its components.  A file name is the
\* sequence of its pieces, the text ".tiff" always being a piece of its own
\* (no other piece contains it, nor do two adjacent pieces make it), so that
\* "a.tiff" is <<"a", ".tiff">>.  A file path is <<directory, name>>.  A
\* content is <<kind>> followed by the markers of the commands it went
\* through; the kind tells what tifffile.imread makes of the file.
TIFF == ".tiff"
BgmaskDir == "background_mask_dir"
DogFilterDir == "dog_filter_dir"
\* mask_background.py line 145, dog_filter.py line 74: the text put before
\* ".tiff"
Marker(cmd) == IF cmd = BgmaskDir THEN "_bgmask" ELSE "_dogfilter"
\* filename.endswith(".tiff")
EndsWithTiff(name) == Len(name) > 0 /\ name[Len(name)] = TIFF
\* filename.replace(".tiff", marker + ".tiff"): str.replace replaces every
\* occurrence
RECURSIVE Replace(_, _)
Replace(name, marker) ==
    IF name = <<>> THEN <<>>
    ELSE (IF Head(name) = TIFF THEN <<marker, TIFF>> ELSE <<Head(name)>>)
             \o Replace(Tail(name), marker)
\* dirpath.relative_to(input_dirpath), for a directory the walk came to
RelativeTo(dir, top) == SubSeq(dir, Len(top) + 1, Len(dir))
\* output_dirpath / dirpath.relative_to(input_dirpath) / new name
OutputFilepath(cmd, top, out, dir, name) ==
    <<out \o RelativeTo(dir, top), Replace(name, Marker(cmd))>>
\* the directories mkdir(exist_ok=True, parents=True) leaves in existence
MkdirParents(ds, dir) == ds \cup {SubSeq(dir, 1, n) : n \in 1 .. Len(dir)}
\* the subdirectories and the file names scandir finds in a directory
Subdirs(ds, dir) ==
    {d \in ds : Len(d) = Len(dir) + 1 /\ SubSeq(d, 1, Len(dir)) = dir}
FilesIn(fs, dir) == {f[2] : f \in {g \in DOMAIN fs : g[1] = dir}}
\* the orders in which scandir can report a set of entries
Orderings(S) ==
    {q \in [1 .. Cardinality(S) -> S] :
        \A i \in 1 .. Cardinality(S), j \in 1 .. Cardinality(S) :
            q[i] = q[j] => i = j}
Reversed(q) == [i \in 1 .. Len(q) |-> q[Len(q) + 1 - i]]
\* process_image: tifffile.imread raises on a file that is no TIFF file;
\* apply_background_mask raises the ValueError of line 20 on a single image
\* (two dimensions); apply_dog_filter takes whatever array it gets
TiffFileError == "TiffFileError: not a TIFF file"
Kinds == {"stack", "image", "junk"}
ProcessImageError(cmd, content) ==
    IF content[1] = "junk" THEN TiffFileError
    ELSE IF cmd = BgmaskDir /\ content[1] = "image" THEN ValueErrorNdim
    ELSE ""
\* what tifffile.imwrite writes for a file of the given content
ProcessImage(cmd, content) == Append(content, Marker(cmd))
\* the file system with one more file
WithFile(fs, path, content) ==
    [f \in DOMAIN fs \cup {path} |-> IF f = path THEN content ELSE fs[f]]

InDir == <<"in">>
SubDir == <<"in", "sub">>
OutDir == <<"out">>
\* the input directory, with or without a directory above it
InputDirs == {InDir, SubDir}
\* the output directory lies beside the input directory, is the input
\* directory, lies in it or contains it
OutputDirs == {OutDir, InDir, SubDir}
FileNames == {<<"a", TIFF>>, <<"a", TIFF, TIFF>>, <<"a", ".txt">>}
\* the files there can be before the first run: files under the input
\* directory and, possibly, a file where the output of "a.tiff" goes
FilePaths(cmd, top, out) ==
    {<<d, n>> : d \in {top, top \o <<"sub">>}, n \in FileNames}
        \cup {OutputFilepath(cmd, top, out, top, <<"a", TIFF>>)}
FileSystems(cmd, top, out) ==
    UNION {[P -> {<<kd>> : kd \in Kinds}] :
              P \in {Q \in SUBSET FilePaths(cmd, top, out) :
                        Cardinality(Q) <= MaxFiles}}

InitBatch ==
    /\ pc = "cli"
    /\ entry \in {BgmaskDir, DogFilterDir}
    /\ error = ""
    /\ input_dirpath \in InputDirs
    /\ output_dirpath \in OutputDirs
    /\ files \in FileSystems(entry, input_dirpath, output_dirpath)
    /\ files_in = files
    /\ \E more \in SUBSET {input_dirpath \o <<"sub">>, OutDir} :
          dirs = UNION {MkdirParents({}, d) :
                           d \in {input_dirpath} \cup more
                                    \cup {f[1] : f \in DOMAIN files}}
    /\ paths = <<>> /\ dirpath = <<>> /\ filenames = {}
    /\ runs = 0 /\ clean_runs = 0 /\ processed = {}
    /\ ndim = 2 /\ image_stack = <<>> /\ stack_in = <<>> /\ edge_of = <<>>
    /\ ind = <<>> /\ std = <<>> /\ estimated_background_mask = <<>>
    /\ n_estimates = 0 /\ sampled = {} /\ k = 0 /\ edges = <<>> /\ mask = <<>>
    /\ dilated_mask = <<>> /\ cleaned_mask = <<>> /\ subtracted_image = <<>>
    /\ masked_stack = <<>> /\ result = <<>>
    /\ frame_in = <<>> /\ labeled_frame = <<>>
    /\ min_area = DefaultMinArea
    /\ eccentricity_thresh = DefaultEccentricityThresh
    /\ NoROI

batchOther == <<ndim, image_stack, stack_in, edge_of, ind, std,
                estimated_background_mask, n_estimates, sampled, k, edges,
                mask, dilated_mask, cleaned_mask, subtracted_image,
                masked_stack, result, artifactVars, roiVars>>

\* the command is invoked (again) on the same two directories; line 141 /
\* line 70: Path.walk starts from the input directory
BatchStart ==
    /\ pc \in {"cli", "raised"}
    /\ runs < MaxRuns
    /\ runs' = runs + 1
    /\ error' = ""
    /\ paths' = <<input_dirpath>>
    /\ dirpath' = <<>> /\ filenames' = {}
    /\ processed' = {}
    /\ pc' = "walk"
    /\ UNCHANGED <<entry, input_dirpath, output_dirpath, dirs, files, files_in,
                   clean_runs, batchOther>>

\* line 141 / line 70: Path.walk takes the directory pushed last, scans it
\* as it is now and pushes its subdirectories
WalkPop ==
    /\ pc = "walk"
    /\ paths # <<>>
    /\ dirpath' = paths[Len(paths)]
    /\ filenames' = FilesIn(files, dirpath')
    /\ \E dirnames \in Orderings(Subdirs(dirs, dirpath')) :
          paths' = SubSeq(paths, 1, Len(paths) - 1) \o Reversed(dirnames)
    /\ pc' = "files"
    /\ UNCHANGED <<entry, error, input_dirpath, output_dirpath, dirs, files,
                   files_in, runs, clean_runs, processed, batchOther>>

\* line 143 / line 72: a file whose name does not end in ".tiff" is passed
\* over
SkipOther ==
    /\ pc = "files"
    /\ \E filename \in filenames :
          /\ ~EndsWithTiff(filename)
          /\ filenames' = filenames \ {filename}
    /\ UNCHANGED <<pc, entry, error, input_dirpath, output_dirpath, dirs, files,
                   files_in, paths, dirpath, runs, clean_runs, processed,
                   batchOther>>

\* lines 151-153 / lines 78-80: the output exists and the file is skipped
SkipExisting ==
    /\ pc = "files"
    /\ \E filename \in filenames :
          /\ EndsWithTiff(filename)
          /\ OutputFilepath(entry, input_dirpath, output_dirpath, dirpath,
                            filename) \in DOMAIN files
          /\ filenames' = filenames \ {filename}
    /\ UNCHANGED <<pc, entry, error, input_dirpath, output_dirpath, dirs, files,
                   files_in, paths, dirpath, runs, clean_runs, processed,
                   batchOther>>

\* lines 155-156 / lines 82-83: the directory of the output is made and
\* process_image reads the file and writes the output
ProcessFile ==
    /\ pc = "files"
    /\ \E filename \in filenames :
          LET tiff_filepath == <<dirpath, filename>>
              output_filepath ==
                  OutputFilepath(entry, input_dirpath, output_dirpath, dirpath,
                                 filename)
          IN /\ EndsWithTiff(filename)
             /\ output_filepath \notin DOMAIN files
             /\ ProcessImageError(entry, files[tiff_filepath]) = ""
             /\ dirs' = MkdirParents(dirs, output_filepath[1])
             /\ files' = WithFile(files, output_filepath,
                                  ProcessImage(entry, files[tiff_filepath]))
             /\ processed' = processed \cup {tiff_filepath}
             /\ filenames' = filenames \ {filename}
    /\ UNCHANGED <<pc, entry, error, input_dirpath, output_dirpath, files_in,
                   paths, dirpath, runs, clean_runs, batchOther>>

\* lines 155-156 / lines 82-83: the directory of the output is made and
\* process_image raises before it writes; nothing handles the exception
ProcessRaises ==
    /\ pc = "files"
    /\ \E filename \in filenames :
          LET tiff_filepath == <<dirpath, filename>>
              output_filepath ==
                  OutputFilepath(entry, input_dirpath, output_dirpath, dirpath,
                                 filename)
          IN /\ EndsWithTiff(filename)
             /\ output_filepath \notin DOMAIN files
             /\ ProcessImageError(entry, files[tiff_filepath]) # ""
             /\ dirs' = MkdirParents(dirs, output_filepath[1])
             /\ error' = ProcessImageError(entry, files[tiff_filepath])
             /\ processed' = processed \cup {tiff_filepath}
             /\ filenames' = filenames \ {filename}
    /\ pc' = "raised"
    /\ UNCHANGED <<entry, input_dirpath, output_dirpath, files, files_in,
                   paths, dirpath, runs, clean_runs, batchOther>>

\* line 142 / line 71: the inner loop is through
DirDone ==
    /\ pc = "files"
    /\ filenames = {}
    /\ pc' = "walk"
    /\ UNCHANGED <<entry, error, input_dirpath, output_dirpath, dirs, files,
                   files_in, paths, dirpath, filenames, runs, clean_runs,
                   processed, batchOther>>

\* line 141 / line 70: the walk is through and the command returns
WalkDone ==
    /\ pc = "walk"
    /\ paths = <<>>
    /\ clean_runs' = clean_runs + 1
    /\ pc' = "cli"
    /\ UNCHANGED <<entry, error, input_dirpath, output_dirpath, dirs, files,
                   files_in, paths, dirpath, filenames, runs, processed,
                   batchOther>>

NextBatch ==
    \/ BatchStart \/ WalkPop \/ SkipOther \/ SkipExisting
    \/ ProcessFile \/ ProcessRaises \/ DirDone \/ WalkDone

SpecBatch == InitBatch /\ [][NextBatch]_vars

\* ------------------------------------ claims about apply_background_mask
\* the frame composited last, once line 101 has appended it
Composited == entry = "apply_background_mask" /\ pc \in {"loop", "returned"} /\ k > 0
LastFrame == stack_in[k]
LastOutput == masked_stack[k]

\* C1: the pixels set to the frame's maximum are exactly those where the
\* mask left by remove_artifacts is false, and the pixels where it is true
\* keep the frame's value (before rescaling).
C1_PaintedWhereFinalMaskFalse ==
    Composited =>
        \A p \in Pixels :
            IF cleaned_mask[p] = 0
            THEN subtracted_image[p] = ImageMax(LastFrame)
            ELSE subtracted_image[p] = LastFrame[p]

Dilated == entry = "apply_background_mask" /\ pc \in {"artifacts", "composite"}
C7_DilationKeepsForeground ==
    Dilated =>
        /\ Foreground(mask) \subseteq Foreground(dilated_mask)
        /\ Cardinality(Foreground(dilated_mask)) >= Cardinality(Foreground(mask))

\* C7 witness: a raw mask with a pixel in the corner of the image, grown by
\* the dilation without filling the frame
C7_Witness ==
    /\ Dilated
    /\ mask[PixA]
    /\ Cardinality(Foreground(dilated_mask)) > Cardinality(Foreground(mask))
    /\ \E p \in Pixels : ~dilated_mask[p]

\* C9: when the edge response inside the background mask has zero variance,
\* or the background mask is empty, the edge-mask step raises an error
\* instead of producing a raw mask.
C9_DegenerateHistogramRaises ==
    (entry = "apply_background_mask" /\ pc = "dilate") =>
        Cardinality(OtsuValues(edges, Foreground(estimated_background_mask))) >= 2

InLoop ==
    entry = "apply_background_mask"
        /\ pc \in {"loop", "dilate", "artifacts", "composite", "returned"}
\* what lines 73-100 make of one frame, its edge response and the background
\* mask
FrameOutput(frame, response, background) ==
    RescaleToUByte(
        PaintBackground(frame,
            Dilation(Above(response, ThresholdOtsu(response, Foreground(background))),
                     DILATION_FACTOR)))

\* C20: the background estimate is computed exactly once per stack, before
\* the first frame is processed, and never modified afterwards; the input
\* stack is not modified; output frame i is a function of input frame i and
\* the shared background mask alone (equal frames give equal output frames
\* wherever they stand in the stack), so that the frames can be processed in
\* any order and reassembled by frame index.
C20_FramesIndependent ==
    /\ [](InLoop =>
             /\ n_estimates = 1
             /\ image_stack = stack_in
             /\ Len(masked_stack) = k
             /\ \A i \in 1 .. Len(masked_stack) :
                    masked_stack[i] = FrameOutput(stack_in[i], edge_of[i],
                                                  estimated_background_mask)
             /\ \A i \in 1 .. Len(masked_stack), j \in 1 .. Len(masked_stack) :
                    stack_in[i] = stack_in[j] => masked_stack[i] = masked_stack[j]
             /\ pc = "returned" => result = masked_stack /\ k = NFrames)
    /\ [][InLoop =>
             /\ estimated_background_mask' = estimated_background_mask
             /\ n_estimates' = n_estimates
             /\ image_stack' = image_stack]_vars

\* C20 witness: a returned stack in which equal frames stand at different
\* positions and gave equal output frames, while a different frame of the same
\* stack gave a different output frame under the same background mask
C20_Witness ==
    /\ entry = "apply_background_mask" /\ pc = "returned"
    /\ n_estimates = 1
    /\ \E i \in 1 .. NFrames, j \in 1 .. NFrames :
          /\ i < j
          /\ stack_in[i] = stack_in[j]
          /\ result[i] = result[j]
    /\ \E i \in 1 .. NFrames, j \in 1 .. NFrames :
          /\ stack_in[i] # stack_in[j]
          /\ result[i] # result[j]
    /\ \E p \in Pixels : estimated_background_mask[p]

\* --------- claims about make_background_mask_from_standard_deviation
VariesIn(p, J) == \E i \in J, j \in J : stack_in[i + 1][p] # stack_in[j + 1][p]
Estimated == pc \in {"loop", "returned", "dilate", "artifacts", "composite"}
                \/ (pc = "raised" /\ error = IndexErrorEmpty)

C8_DimensionCheckAtEntry ==
    /\ (ndim < 3 /\ pc # "est_check") =>
          /\ pc = "raised" /\ error = ValueErrorNdim
          /\ std = <<>> /\ estimated_background_mask = <<>> /\ n_estimates = 0
          /\ result = <<>>
    /\ ndim >= 3 => error # ValueErrorNdim

\* C8 witness: a 2-D image refused at entry
C8_Witness ==
    /\ ndim = 2 /\ pc = "raised" /\ error = ValueErrorNdim /\ std = <<>>

\* C19: in windowed mode with target index i on N frames the standard
\* deviation is taken over exactly the frames max(0, i - 30) ..
\* min(i + 30, N) - 1, a set that is never empty for 0 <= i < N; in
\* whole-stack mode over exactly the frames 0, 3, 6, ... below N; so a
\* window covering the entire stack uses all N frames, whole-stack mode only
\* every third.
C19_FramesOfTheEstimate ==
    (entry = "make_background_mask_from_standard_deviation"
        /\ pc \in {"est_otsu", "returned"}) =>
        /\ ind # <<>> =>
              /\ sampled = {j \in 0 .. NFrames - 1 :
                               /\ j >= Max2(0, ind[1] - 30)
                               /\ j < Min2(ind[1] + 30, NFrames)}
              /\ sampled # {}
              /\ (ind[1] - 30 <= 0 /\ ind[1] + 30 >= NFrames)
                    => sampled = 0 .. NFrames - 1
        /\ ind = <<>> =>
              /\ sampled = {j \in 0 .. NFrames - 1 : j % 3 = 0}
              /\ NFrames > 1 => sampled # 0 .. NFrames - 1

\* C19 witness: a window that ends inside the stack on both sides
C19_Witness ==
    /\ entry = "make_background_mask_from_standard_deviation"
    /\ pc = "returned" /\ ind # <<>>
    /\ ind[1] - 30 > 0 /\ ind[1] + 30 < NFrames
    /\ Cardinality(sampled) = 60
    /\ 0 \notin sampled /\ NFrames - 1 \notin sampled

\* ------------------------------------------- claims about remove_artifacts
RegionsIn == Components(Foreground(frame_in))
RegionSet == {RegionsIn[j] : j \in 1 .. Len(RegionsIn)}
Zeroed(img, R) == \A p \in R : img[p] = 0
Kept(img, R) == \A p \in R : img[p] # 0
MeetsCriteria(R) ==
    Area(R) >= min_area /\ ~EccentricityBelow(R, eccentricity_thresh)

\* C4: the mask returned by remove_artifacts has the shape of its input and
\* every value of it is 0 or 1, also when two or more components survive.
C4_FinalMaskIsBinary ==
    pc = "ra_done" =>
        /\ DOMAIN cleaned_mask = DOMAIN frame_in
        /\ \A p \in DOMAIN cleaned_mask : cleaned_mask[p] \in {0, 1}

\* the part of C4 that the code keeps: the shape
C4_ShapeKept == pc = "ra_done" => DOMAIN cleaned_mask = DOMAIN frame_in

\* C5: remove_artifacts zeroes a connected component of its input if and only
\* if its area is below min_area or its eccentricity is below
\* eccentricity_thresh; a component meeting both criteria keeps all its pixels
\* after the label-level pass and after remove_small_objects; with min_area = 0
\* and eccentricity_thresh = 0 nothing is removed; when no component qualifies
\* the result is all zero and no error is raised.
C5_RemovedIffFailsCriteria ==
    /\ pc \in {"ra_small", "ra_done"} =>
          \A R \in RegionSet :
              IF MeetsCriteria(R) THEN Kept(labeled_frame, R)
              ELSE Zeroed(labeled_frame, R)
    /\ pc = "ra_done" =>
          /\ error = ""
          /\ \A R \in RegionSet :
                 IF MeetsCriteria(R) THEN Kept(cleaned_mask, R)
                 ELSE Zeroed(cleaned_mask, R)
          /\ (min_area = 0 /\ eccentricity_thresh[1] = 0) =>
                 Nonzero(cleaned_mask) = Foreground(frame_in)
          /\ (\A R \in RegionSet : ~MeetsCriteria(R)) =>
                 Nonzero(cleaned_mask) = {}

\* C5 witness: a mask with a component removed for its eccentricity alone,
\* next to a component that is kept
C5_Witness ==
    /\ pc = "ra_done"
    /\ \E R \in RegionSet :
          Area(R) >= min_area /\ ~MeetsCriteria(R) /\ Zeroed(cleaned_mask, R)
    /\ \E R \in RegionSet : MeetsCriteria(R) /\ Kept(cleaned_mask, R)

\* C6: artifact filtering never adds foreground: the nonzero pixels of the
\* result are among the set pixels of the input, so the area does not grow,
\* and the input mask itself is left unmodified.
C6_NeverAddsForeground ==
    /\ dilated_mask = frame_in
    /\ pc \in {"ra_loop", "ra_small", "ra_done"} =>
          Nonzero(labeled_frame) \subseteq Foreground(frame_in)
    /\ pc = "ra_done" =>
          /\ Nonzero(cleaned_mask) \subseteq Foreground(frame_in)
          /\ Cardinality(Nonzero(cleaned_mask)) <= Cardinality(Foreground(frame_in))

\* C6 witness: a result that lost some of the input's foreground and kept some
C6_Witness ==
    /\ pc = "ra_done"
    /\ Nonzero(cleaned_mask) # {}
    /\ Nonzero(cleaned_mask) # Foreground(frame_in)
    /\ dilated_mask = frame_in

\* ------------------------------------------------ claims about getROIMask
InvalidAreaBounds == min_area > max_area \/ min_area < 0 \/ max_area < 0
ROITerminated == entry = "getROIMask" /\ pc \in {"returned", "raised"}

\* C10: a call of getROIMask with min_area > max_area, or with either bound
\* negative, ends with a parameter error and returns no mask.
C10_InvalidAreaBoundsRaise ==
    (ROITerminated /\ InvalidAreaBounds) =>
        /\ pc = "raised"
        /\ error # ""
        /\ result = <<>>

ShapeMismatch ==
    wells_mask # <<>> /\ DOMAIN wells_mask # Grid(image_shape[1], image_shape[2])

\* C11: a call of getROIMask with a wells_mask whose shape differs from the
\* frame's shape fails, for every value of keep_border_data: it ends with an
\* error and never returns a mask.
C11_ShapeMismatchRaises ==
    (ROITerminated /\ ShapeMismatch) =>
        /\ pc = "raised"
        /\ result = <<>>

\* C12: when the processing of frame k fails inside apply_background_mask,
\* the failure reaches the caller together with the frame index k, and the
\* frames 0..k-1 already produced are what the caller is left with.
FrameFailed ==
    entry = "apply_background_mask" /\ pc = "raised" /\ error = IndexErrorEmpty
C12_FrameFailureReported ==
    FrameFailed =>
        /\ FrameIndexOf(error) = <<k>>
        /\ Len(masked_stack) = k
        /\ result = masked_stack

ROISelected ==
    entry = "getROIMask"
        /\ pc \in {"roi_draw", "roi_border", "roi_dilate", "returned"}
ROIDrawn ==
    entry = "getROIMask" /\ pc \in {"roi_border", "roi_dilate", "returned"}
ROIReturned == entry = "getROIMask" /\ pc = "returned"
WithinAreaBounds(c) == min_area <= c.area /\ c.area <= max_area
\* python indices of the contours retained
Retained == {goodIndex[n] : n \in 1..Len(goodIndex)}

\* C13: a contour is filled into the mask only if min_area <= area <=
\* max_area, both bounds inclusive, whatever the border policy; with
\* keep_border_data true a contour is retained if and only if its area is
\* within the bounds; when no contour has an area within the bounds the
\* returned mask is all zero.
C13_AreaBoundsInclusive ==
    /\ ROISelected =>
          /\ \A ii \in Retained : WithinAreaBounds(contours[ii + 1])
          /\ keep_border_data =>
                 Retained = {ii \in 0..(Len(contours) - 1) :
                                WithinAreaBounds(contours[ii + 1])}
    /\ (ROIDrawn /\ pc = "roi_border") =>
          \A p \in DOMAIN mask :
              mask[p] # 0 =>
                 \E i \in 1..Len(contours) :
                     p \in contours[i].fill /\ WithinAreaBounds(contours[i])
    /\ ROIReturned =>
          ((\A i \in 1..Len(contours) : ~WithinAreaBounds(contours[i]))
              => \A p \in DOMAIN result : result[p] = 0)

\* C13 witness: of two contours the one whose area equals both bounds is
\* retained and the other, below min_area, is not; the mask returned is not
\* empty
C13_Witness ==
    /\ ROIReturned /\ keep_border_data
    /\ Len(contours) = 2 /\ Len(goodIndex) = 1
    /\ contours[goodIndex[1] + 1].area = min_area
    /\ min_area = max_area
    /\ \E i \in 1..2 : contours[i].area < min_area
    /\ \E p \in DOMAIN result : result[p] # 0

FrameGrid == Grid(image_shape[1], image_shape[2])
OnBorder(p) ==
    \/ p[1] = 0 \/ p[1] = image_shape[1] - 1
    \/ p[2] = 0 \/ p[2] = image_shape[2] - 1

\* C14: the mask returned by getROIMask has the shape of the input frame and
\* holds only the values 0 and 1; so does the mask after the fill of the
\* retained contours and after the zeroing of the outermost one-pixel
\* border, which leaves every border pixel 0 before the dilation.
C14_MaskIsBinaryOfFrameShape ==
    /\ ROIDrawn =>
          /\ DOMAIN mask = FrameGrid
          /\ \A p \in FrameGrid : mask[p] \in {0, 1}
    /\ (entry = "getROIMask" /\ pc = "roi_dilate") =>
          \A p \in FrameGrid : OnBorder(p) => mask[p] = 0
    /\ ROIReturned =>
          /\ DOMAIN result = FrameGrid
          /\ \A p \in FrameGrid : result[p] \in {0, 1}

\* C14 witness: a returned mask that holds both values and that the
\* dilation has grown onto the border of the frame
C14_Witness ==
    /\ ROIReturned
    /\ goodIndex # <<>>
    /\ \E p \in FrameGrid : result[p] = 0
    /\ \E p \in FrameGrid : OnBorder(p) /\ result[p] = 1

BorderPolicy ==
    entry = "getROIMask" /\ image = <<>> /\ ~keep_border_data /\ wells_mask = <<>>
ContourIndices == 0..(Len(contours) - 1)
\* the border check as the claim words it: x is the column, y the row
PassesBorderCheck(c) ==
    \A q \in c.points :
        /\ q[1] # 1 /\ q[2] # 1
        /\ q[1] # image_shape[2] - 2
        /\ q[2] # image_shape[1] - 2
TouchesRightOrBottom(c) ==
    \E p \in c.fill : p[1] = image_shape[1] - 1 \/ p[2] = image_shape[2] - 1

\* C16: with keep_border_data false and no wells_mask a contour is retained
\* if and only if its area is within the bounds and none of its points has
\* x or y equal to 1, x equal to width - 2 or y equal to height - 2; so no
\* contour touching the right or bottom border of the frame is retained.
C16_BorderContoursRejected ==
    (BorderPolicy /\ ROISelected) =>
        /\ \A ii \in ContourIndices :
               ii \in Retained <=>
                  /\ PassesBorderCheck(contours[ii + 1])
                  /\ WithinAreaBounds(contours[ii + 1])
        /\ \A ii \in Retained : ~TouchesRightOrBottom(contours[ii + 1])

\* the part of C16 that the code keeps: the check itself, with the column
\* compared against the width and the row against the height
C16_BorderCheckAsWorded ==
    (BorderPolicy /\ ROISelected) =>
        \A ii \in ContourIndices :
            ii \in Retained <=>
               /\ PassesBorderCheck(contours[ii + 1])
               /\ WithinAreaBounds(contours[ii + 1])

OnClosedWell(c) == \E q \in c.points : ~wells_mask[<<q[2], q[1]>>]

\* C17: with keep_border_data false and a wells_mask supplied the border
\* check is not applied: a contour (with an area within the bounds) is
\* rejected if and only if one of its points <<x, y>> lies on a pixel where
\* wells_mask[y, x] is zero; with keep_border_data true the wells_mask has
\* no effect on the contours retained.
C17_WellsMaskPolicy ==
    (entry = "getROIMask" /\ image = <<>> /\ ROISelected) =>
        /\ (~keep_border_data /\ wells_mask # <<>>) =>
               \A ii \in ContourIndices :
                   ii \in Retained <=>
                      /\ ~OnClosedWell(contours[ii + 1])
                      /\ WithinAreaBounds(contours[ii + 1])
        /\ keep_border_data =>
               \A ii \in ContourIndices :
                   ii \in Retained <=> WithinAreaBounds(contours[ii + 1])

\* C17 witness: under a wells mask with a closed column, a contour with a
\* point on it is rejected though its area is within the bounds and another
\* of its points lies on an open pixel; a second contour is retained though
\* the border check would have rejected it
C17_Witness ==
    /\ entry = "getROIMask" /\ image = <<>> /\ ROIReturned
    /\ ~keep_border_data /\ wells_mask # <<>> /\ ~ShapeMismatch
    /\ \E ii \in ContourIndices :
          /\ ii \notin Retained
          /\ WithinAreaBounds(contours[ii + 1])
          /\ OnClosedWell(contours[ii + 1])
          /\ \E q \in contours[ii + 1].points : wells_mask[<<q[2], q[1]>>]
    /\ \E ii \in Retained : ~PassesBorderCheck(contours[ii + 1])

OddAtLeast3(n) == n % 2 = 1 /\ n >= 3

\* C18: for every integer thresh_block_size the block size given to the
\* adaptive threshold is odd and at least 3; it is the input itself when the
\* input is odd and at least 3, and otherwise exceeds max(3, input) by at
\* most 1.
C18_BlockSizeOddAtLeast3 ==
    /\ [](entry = "getROIMask" /\ pc # "roi_entry"
              => OddAtLeast3(thresh_block_size))
    /\ [][ROIBlockSize =>
            /\ OddAtLeast3(thresh_block_size')
            /\ OddAtLeast3(thresh_block_size)
                  => thresh_block_size' = thresh_block_size
            /\ thresh_block_size' - Max2(3, thresh_block_size) \in {0, 1}]_vars

\* C18 witness: the largest block size tried, an even one, has been raised to
\* the next odd number, which the adaptive threshold is then called with
C18_Witness ==
    /\ entry = "getROIMask" /\ pc = "roi_select"
    /\ MaxBlockArg % 2 = 0 => thresh_block_size = MaxBlockArg + 1
    /\ MaxBlockArg % 2 = 1 => thresh_block_size = MaxBlockArg

\* ------------------------------- claims about getROIMask, pixel by pixel
OnPixels == entry = "getROIMask" /\ image # <<>>
Square == {p \in DOMAIN image : image[p] = ImageMax(image)}
Blurred == OnPixels /\ pc \notin {"roi_entry", "roi_threshold"}
Thresholded == Blurred /\ pc # "roi_adaptive"
\* the adaptive threshold of a frame of one intensity marks every pixel
\* (otherwise none)
MarksConstant == IF is_light_background THEN thresh_C <= 0 ELSE thresh_C < 0
\* a square of this side is the minority under every blur window
SquareIsMinority == 2 * SquareSide * SquareSide < MedianKernel * MedianKernel

\* C15 as stated: on the frame with one filled bright square,
\* is_light_background and keep_border_data true, min_area = 1 and
\* max_area = 100, exactly one contour is retained and the mask filled from
\* it covers the square before the dilation.
C15_SquareRetained ==
    (OnPixels /\ is_light_background) =>
        /\ ROISelected => Len(goodIndex) = 1
        /\ pc = "roi_border" => \A p \in Square : mask[p] = 1

\* C15 as amended: for a square clear of the frame's border the median blur
\* replaces every pixel by the background intensity; the adaptive threshold
\* then marks no pixel (thresh_C > 0, or thresh_C = 0 on a dark background)
\* or every pixel; accordingly no contour is retained and the mask returned
\* is all zero, or the one contour retained is the outline of the frame and
\* the mask returned covers all but the frame's border.
C15_SquareBlurredAway ==
    SquareIsMinority =>
        /\ Blurred => \A p \in DOMAIN image : blurred[p] = ImageMin(image)
        /\ Thresholded =>
              \A p \in DOMAIN image :
                  thresholded[p] = IF MarksConstant THEN ThresholdMax ELSE 0
        /\ (OnPixels /\ ROISelected) =>
              IF MarksConstant
              THEN /\ goodIndex = <<0>>
                   /\ contours[1].fill = DOMAIN image
              ELSE goodIndex = <<>>
        /\ (OnPixels /\ ROIReturned) =>
              IF MarksConstant
              THEN \A p \in DOMAIN image : ~OnBorder(p) => result[p] = 1
              ELSE \A p \in DOMAIN image : result[p] = 0

\* C15 witness: the scenario's frame and parameters with a positive thresh_C:
\* the square is gone after the blur and the mask returned is all zero
C15_Witness ==
    /\ OnPixels /\ ROIReturned
    /\ is_light_background /\ keep_border_data /\ thresh_C > 0
    /\ min_area = 1 /\ max_area = 100
    /\ Cardinality(Square) = SquareSide * SquareSide
    /\ \A p \in Square : ~OnBorder(p)
    /\ \A p \in DOMAIN image : blurred[p] < ImageMax(image)
    /\ goodIndex = <<>>
    /\ \A p \in DOMAIN image : result[p] = 0

\* in the frames tried every connected object of the thresholded frame fills
\* its bounding rectangle
ObjectsAreRectangles ==
    (OnPixels /\ Thresholded) =>
        LET cs == Components(Nonzero(thresholded))
        IN \A i \in 1..Len(cs) :
              LET b == BoundingBox(cs[i])
              IN cs[i] = (b[1]..b[3]) \X (b[2]..b[4])

\* ------------- claims about background_mask_dir and dog_filter_dir
InBatch == entry \in {BgmaskDir, DogFilterDir}
\* the name with its suffix ".tiff" replaced by marker + ".tiff"
SuffixReplaced(name, marker) ==
    SubSeq(name, 1, Len(name) - 1) \o <<marker, TIFF>>
\* the output path of a ".tiff" file under the input directory: the same
\* relative subdirectory under the output directory, the suffix replaced
OutputPathAsWorded(path) ==
    <<output_dirpath \o RelativeTo(path[1], input_dirpath),
      SuffixReplaced(path[2], Marker(entry))>>
\* no step overwrites, modifies or removes a file that exists, so that the
\* files there were before the first run (the input files among them) stay
\* as they were
C21_ExistingFilesKept ==
    /\ [](InBatch =>
             \A f \in DOMAIN files_in :
                 f \in DOMAIN files /\ files[f] = files_in[f])
    /\ [][InBatch =>
             \A f \in DOMAIN files :
                 f \in DOMAIN files' /\ files'[f] = files[f]]_vars
\* every file written is the output, at the path worded above, of a ".tiff"
\* file that is handed to process_image in the same step
C21_OutputPathAsWorded ==
    [][InBatch =>
          \A f \in DOMAIN files' \ DOMAIN files :
              \E g \in processed' \ processed :
                  EndsWithTiff(g[2]) /\ f = OutputPathAsWorded(g)]_vars
\* once a run has completed without error, a later run over the same
\* directories processes no file
C21_SecondRunProcessesNothing ==
    [](InBatch /\ clean_runs >= 1 /\ pc \in {"walk", "files", "raised"}
          => processed = {})
\* a file whose output exists is skipped: it is not handed to process_image
C21_ExistingOutputSkipped ==
    [][InBatch =>
          \A g \in processed' \ processed :
              OutputFilepath(entry, input_dirpath, output_dirpath, g[1], g[2])
                  \notin DOMAIN files]_vars
\* the two directories lie apart: neither is the other or lies in it
IsPrefix(a, b) == Len(a) <= Len(b) /\ SubSeq(b, 1, Len(a)) = a
DirsApart ==
    /\ ~IsPrefix(input_dirpath, output_dirpath)
    /\ ~IsPrefix(output_dirpath, input_dirpath)
\* with the two directories apart, a run after one that completed without
\* error processes no file
C21_SecondRunProcessesNothingApart ==
    [](InBatch /\ DirsApart /\ clean_runs >= 1
           /\ pc \in {"walk", "files", "raised"}
          => processed = {})
\* a name with ".tiff" at its end only gets the output path worded above
C21_OutputPathOfPlainNames ==
    [][InBatch =>
          \A f \in DOMAIN files' \ DOMAIN files :
              \E g \in processed' \ processed :
                  /\ EndsWithTiff(g[2])
                  /\ (\A i \in 1 .. Len(g[2]) - 1 : g[2][i] # TIFF)
                        => f = OutputPathAsWorded(g)]_vars

\* C21: the directory commands never overwrite or modify a file that exists
\* at an output path and never modify an input file; the output of every
\* ".tiff" file under the input directory goes to the same relative
\* subdirectory under the output directory with the suffix replaced; a file
\* whose output exists is skipped; and after one run that completed without
\* error a second run over the same directories processes no file.
C21_BatchCommandsIdempotent ==
    /\ C21_ExistingFilesKept
    /\ C21_OutputPathAsWorded
    /\ C21_ExistingOutputSkipped
    /\ C21_SecondRunProcessesNothing

====
